---- MODULE Spec2Model ----
(***************************************************************************)
(* State-machine model of news_scraper.py (class EnhancedNewsScraper and   *)
(* the part of main() that drives it): construction, the RSS fetch loop    *)
(* with URL deduplication and keyword categorization, remove_duplicates,   *)
(* generate_daily_summary and the category ordering of                     *)
(* generate_html_report.                                                   *)
(*                                                                         *)
(* Python strings are modelled as sequences of one-character strings, so   *)
(* that strip(), lower(), startswith() and the substring test `in` are     *)
(* computed, not assumed.  The seven characters of the summary prefix      *)
(* "今日导览摘要：" are written in pinyin, one element per character.      *)
(***************************************************************************)
EXTENDS Integers, Sequences, FiniteSets, TLC

VARIABLES
    pc,                   \* position of main(): start, fetch, entry, report, done, fatal
    deepseek_api_key,     \* argument of __init__ (DEEPSEEK_API_KEY)
    rss_sources,          \* self.rss_sources
    categories,           \* self.categories, an ordered dict: sequence of [name, keywords]
    articles_by_category, \* self.articles_by_category: category name -> sequence of articles
    processed_urls,       \* self.processed_urls
    src_idx,              \* index in rss_sources of the source the for loop is at
    fetch_result,         \* what feedparser.parse did for the last source: none, raise, empty, entries
    entries_left,         \* entries of feed.entries[:6] still to be processed
    link,                 \* local `link` of the entry processed last
    categorized,          \* history: link -> number of categorize_article calls made for it
    fetches,              \* history: number of feedparser.parse calls
    model_calls,          \* history: number of chat.completions.create calls
    model_outcome,        \* what the model call did (none before the call)
    daily_summary,        \* the text generate_daily_summary returned
    summary_log,          \* the log line generate_daily_summary ended with
    category_article_counts, \* the sorted (category, count) list of generate_html_report
    fn                    \* call record of the pure-function specification FnSpec

vars == <<pc, deepseek_api_key, rss_sources, categories, articles_by_category,
          processed_urls, src_idx, fetch_result, entries_left, link, categorized,
          fetches, model_calls, model_outcome, daily_summary, summary_log,
          category_article_counts, fn>>

(***************************************************************************)
(* Bounds of the model.                                                    *)
(***************************************************************************)
MaxSources == 2      \* longest rss_sources list
MaxFeedLen == 7      \* longest feed.entries a source delivers
MaxTailLen == 1      \* longest free text after the (partial) prefix in a model reply
MaxCount == 2        \* most articles per category in the ordering specification
MaxOver == 1         \* how far past a limit of the program the inputs go

(***************************************************************************)
(* Program constants.                                                      *)
(***************************************************************************)
EntriesPerSource == 6
ContentLimit == 400
Threshold == 1
TitleLimitPerCategory == 10
TotalTitleLimit == 60

(***************************************************************************)
(* Python string operations on sequences of characters.                    *)
(***************************************************************************)
IsSpace(c) == c = " "

\* the positions of s that hold a character other than white space
NonSpace(s) == {i \in 1..Len(s) : ~ IsSpace(s[i])}

\* s from its first such character on
LStrip(s) ==
    LET kept == NonSpace(s)
    IN  IF kept = {} THEN <<>>
        ELSE SubSeq(s, CHOOSE i \in kept : \A j \in 1..(i - 1) : IsSpace(s[j]), Len(s))

\* s up to its last such character
RStrip(s) ==
    LET kept == NonSpace(s)
    IN  IF kept = {} THEN <<>>
        ELSE SubSeq(s, 1, CHOOSE i \in kept : \A j \in (i + 1)..Len(s) : IsSpace(s[j]))

Strip(s) == RStrip(LStrip(s))

LowerChar(c) ==
    CASE c = "A" -> "a"
      [] c = "I" -> "i"
      [] c = "E" -> "e"
      [] c = "V" -> "v"
      [] c = "M" -> "m"
      [] c = "L" -> "l"
      [] OTHER -> c

Lower(s) == [i \in 1..Len(s) |-> LowerChar(s[i])]

\* Python `k in s` for strings: k occurs in s as a contiguous substring
Contains(k, s) ==
    \E i \in 1..(Len(s) - Len(k) + 1) : SubSeq(s, i, i + Len(k) - 1) = k

StartsWith(s, p) == Len(s) >= Len(p) /\ SubSeq(s, 1, Len(p)) = p

Min(a, b) == IF a <= b THEN a ELSE b

(***************************************************************************)
(* Category registries.  A dict is a sequence of [name, keywords] in       *)
(* insertion order.  RegistryTwo keeps two categories of self.categories   *)
(* with their two-letter keywords ('ai', 'ml'; 'ev').                      *)
(***************************************************************************)
RegistryEmpty == <<>>

RegistryTwo ==
    << [name |-> "AI",    keywords |-> << <<"a", "i">>, <<"m", "l">> >>],
       [name |-> "qiche", keywords |-> << <<"e", "v">> >>] >>

Registries == {RegistryEmpty, RegistryTwo}

Names(cats) == {cats[i].name : i \in 1..Len(cats)}

(***************************************************************************)
(* categorize_article                                                      *)
(***************************************************************************)
FullContent(title, content) == Lower(title \o <<" ">> \o content)

\* the part of the score one keyword contributes (lines 196-200);
\* KeywordScoreTitleOnly is the faulty variant that looks at the title alone
KeywordScoreTitleOnly(keyword, title, content) ==
    IF Contains(Lower(keyword), Lower(title)) THEN 3 ELSE 0

\* the faulty variant that weighs a keyword of the title 2 in all, not 1 + 2
KeywordScoreTwo(keyword, title, content) ==
    IF Contains(Lower(keyword), FullContent(title, content))
    THEN (IF Contains(Lower(keyword), Lower(title)) THEN 2 ELSE 1)
    ELSE 0

KeywordScore(keyword, title, content) ==
    IF Contains(Lower(keyword), FullContent(title, content))
    THEN 1 + (IF Contains(Lower(keyword), Lower(title)) THEN 2 ELSE 0)
    ELSE 0

RECURSIVE Score(_, _, _)
Score(keywords, title, content) ==
    IF keywords = <<>> THEN 0
    ELSE KeywordScore(Head(keywords), title, content)
         + Score(Tail(keywords), title, content)

\* match_scores (lines 189-202): the score of every category, in dict order
match_scores(title, content, cats) ==
    [i \in 1..Len(cats) |->
        [category |-> cats[i].name, score |-> Score(cats[i].keywords, title, content)]]

\* the categories (dict items) whose score reaches the threshold, in dict order
RelevantItems(title, content, cats) ==
    SelectSeq(cats, LAMBDA item : Score(item.keywords, title, content) >= Threshold)

\* relevant_categories; is_relevant is relevant_categories # <<>>
categorize_article(title, content, cats) ==
    LET items == RelevantItems(title, content, cats)
    IN  [i \in 1..Len(items) |-> items[i].name]

(***************************************************************************)
(* Entries a feed can deliver                                              *)
(***************************************************************************)
TitlePool == { <<>>, <<" ", "A", "I">>, <<"x">> }
\* summary, description and content of an entry; entry.content is a list of
\* dicts, and [has |-> FALSE] is a dict without 'value'
NoValue == [has |-> FALSE, value |-> <<>>]
BodyPool ==
    { [summary |-> <<"e", "v">>, description |-> <<>>,         content |-> <<NoValue>>],
      [summary |-> <<>>,         description |-> <<"e", "v">>, content |-> <<NoValue>>],
      [summary |-> <<>>,         description |-> <<>>,
       content |-> << [has |-> TRUE, value |-> <<"e", "v">>] >>],
      [summary |-> <<>>,         description |-> <<>>,         content |-> <<NoValue>>],
      [summary |-> <<>>,         description |-> <<>>,         content |-> <<>>] }
LinkPool == { <<>>, <<"u">>, <<"u", " ">>, <<"v">> }

\* "暂无摘要"
NoSummary == <<"zan", "wu", "zhai", "yao">>

\* lines 122-129: the first non-empty of summary, description, content[0].value
MergeContent(summary, description, content) ==
    IF summary # <<>> THEN summary
    ELSE IF description # <<>> THEN description
    ELSE IF Len(content) > 0
         THEN (IF content[1].has THEN content[1].value ELSE <<>>)
    ELSE <<>>

\* lines 131-133
LimitContent(text) ==
    IF Len(text) > ContentLimit
    THEN SubSeq(text, 1, ContentLimit) \o <<".", ".", ".">>
    ELSE text

ContentText(summary, description, content) ==
    LimitContent(MergeContent(summary, description, content))

\* lines 152-158
ArticleData(title, lnk, content_text, source) ==
    [title   |-> Strip(title),
     url     |-> Strip(lnk),
     summary |-> IF content_text # <<>> THEN Strip(content_text) ELSE NoSummary,
     source  |-> source]

\* line 143; SeenNever is the faulty variant whose membership test always says no
SeenNever(lnk, urls) == FALSE

Seen(lnk, urls) == lnk \in urls

\* line 163: not any(a['url'] == link for a in articles)
NotPresent(lnk, articles) ==
    ~ \E i \in 1..Len(articles) : articles[i].url = lnk

\* lines 161-164
AddToCategories(abc, names, lnk, article) ==
    [c \in DOMAIN abc |->
        IF (\E i \in 1..Len(names) : names[i] = c) /\ NotPresent(lnk, abc[c])
        THEN Append(abc[c], article)
        ELSE abc[c]]

\* lines 218-226, for one category: the first article of every url, in order
RECURSIVE UniqueArticles(_, _)
UniqueArticles(articles, seen_urls) ==
    IF articles = <<>> THEN <<>>
    ELSE IF Head(articles).url \in seen_urls
         THEN UniqueArticles(Tail(articles), seen_urls)
         ELSE <<Head(articles)>> \o
              UniqueArticles(Tail(articles), seen_urls \cup {Head(articles).url})

remove_duplicates(abc) ==
    [c \in DOMAIN abc |-> UniqueArticles(abc[c], {})]

(***************************************************************************)
(* generate_daily_summary                                                  *)
(***************************************************************************)
\* "今日导览摘要：", one element per character
SENTINEL == <<"jin", "ri", "dao", "lan", "zhai", "yao", ":">>

\* "DeepSeek API 调用失败", the wording both error messages share
CallFailedWords == <<"DeepSeek", " ", "API", " ", "diao", "yong", "shi", "bai">>

\* line 256: "今日导览摘要：DeepSeek API 调用失败，暂无新闻内容可供分析。"
NoArticlesMsg ==
    SENTINEL \o CallFailedWords \o <<",", "zan", "wu", "xin", "wen", "nei", "rong", ".">>

\* line 303: f"今日导览摘要：DeepSeek API 调用失败 - {str(e)}。请检查API密钥和网络连接。"
CallFailedMsg(e) ==
    SENTINEL \o CallFailedWords \o <<" ", "-", " ">> \o e \o <<".", "qing", "jian", "cha">>

\* lines 249-253: "[category] title" of the first ten articles of every non-empty
\* category, walking the dict in its own order
RECURSIVE AllTitles(_, _)
AllTitles(cats, abc) ==
    IF cats = <<>> THEN <<>>
    ELSE LET c == Head(cats).name
             first == SubSeq(abc[c], 1, Min(Len(abc[c]), TitleLimitPerCategory))
         IN  [i \in 1..Len(first) |-> [category |-> c, title |-> first[i].title]]
             \o AllTitles(Tail(cats), abc)

\* line 261: the titles that go into the prompt;
\* PromptTitlesAll is the faulty variant without the cap
PromptTitlesAll(all_titles) == all_titles

PromptTitles(all_titles) ==
    SubSeq(all_titles, 1, Min(Len(all_titles), TotalTitleLimit))

\* lines 246-261: the title list of the prompt
TitlesForPrompt(cats, abc) == PromptTitles(AllTitles(cats, abc))

\* line 255; NoTitlesNever is the faulty variant that never takes the early return
NoTitlesNever(all_titles) == FALSE

NoTitles(all_titles) == all_titles = <<>>

\* lines 296-297; NormalizeKeep is the faulty variant that returns the reply as it came
NormalizeKeep(summary) == summary

Normalize(summary) ==
    IF ~ StartsWith(summary, SENTINEL) THEN SENTINEL \o summary ELSE summary

\* what the model call can do: raise (network, auth, quota), answer without
\* choices, answer with content None, or answer with a text
ErrorPool == { <<"timeout">>, <<"401">> }
IndexErrorText == <<"list index out of range">>
AttributeErrorText == <<"'NoneType' object has no attribute 'strip'">>

TailChars == {"x", " "}
Tails == UNION { [1..n -> TailChars] : n \in 0..MaxTailLen }
\* the prefix a reply starts with: none of it, all but its last character, all of it
Prefixes == { SubSeq(SENTINEL, 1, k) : k \in {0, Len(SENTINEL) - 1, Len(SENTINEL)} }
Replies == { lead \o pre \o tail : lead \in { <<>>, <<" ">> }, pre \in Prefixes, tail \in Tails }

ModelOutcomes ==
    { [kind |-> "raise", text |-> e] : e \in ErrorPool }
    \cup { [kind |-> "no_choices", text |-> <<>>], [kind |-> "content_none", text |-> <<>>] }
    \cup { [kind |-> "content", text |-> r] : r \in Replies }

\* whether lines 284-295 raise for an outcome, and str(e) of what they raise
Raises(outcome) == outcome.kind # "content"

Raised(outcome) ==
    CASE outcome.kind = "no_choices" -> IndexErrorText
      [] outcome.kind = "content_none" -> AttributeErrorText
      [] OTHER -> outcome.text

\* lines 302-305; OnModelErrorRaise is the faulty variant that lets the exception
\* leave generate_daily_summary, which main() answers with sys.exit(1)
OnModelErrorRaise(e) ==
    [pc |-> "fatal", text |-> <<>>, log |-> "none"]

OnModelError(e) ==
    [pc |-> "done", text |-> CallFailedMsg(e), log |-> "error_call_failed"]

\* lines 283-305, given what the model call did
SummaryAfterCall(outcome) ==
    IF Raises(outcome)
    THEN OnModelError(Raised(outcome))
    ELSE [pc |-> "done", text |-> Normalize(Strip(outcome.text)), log |-> "info_success"]

(***************************************************************************)
(* generate_html_report, lines 315-317                                     *)
(***************************************************************************)
RECURSIVE NonEmptyCounts(_, _)
NonEmptyCounts(cats, abc) ==
    IF cats = <<>> THEN <<>>
    ELSE (IF abc[Head(cats).name] # <<>>
          THEN << [category |-> Head(cats).name, count |-> Len(abc[Head(cats).name])] >>
          ELSE <<>>)
         \o NonEmptyCounts(Tail(cats), abc)

\* faulty variant of InsertByCount: an element goes before the elements of equal count
RECURSIVE InsertBeforeEqual(_, _)
InsertBeforeEqual(sorted, x) ==
    IF sorted = <<>> THEN <<x>>
    ELSE IF Head(sorted).count > x.count
         THEN <<Head(sorted)>> \o InsertBeforeEqual(Tail(sorted), x)
         ELSE <<x>> \o sorted

\* list.sort(key=count, reverse=True) is stable: an element goes after the
\* elements whose count is greater or equal
RECURSIVE InsertByCount(_, _)
InsertByCount(sorted, x) ==
    IF sorted = <<>> THEN <<x>>
    ELSE IF Head(sorted).count >= x.count
         THEN <<Head(sorted)>> \o InsertByCount(Tail(sorted), x)
         ELSE <<x>> \o sorted

RECURSIVE SortByCountDesc(_)
SortByCountDesc(list) ==
    IF list = <<>> THEN <<>>
    ELSE InsertByCount(SortByCountDesc(SubSeq(list, 1, Len(list) - 1)), list[Len(list)])

CategoryArticleCounts(cats, abc) == SortByCountDesc(NonEmptyCounts(cats, abc))

(***************************************************************************)
(* The run: main() constructs the scraper, calls scrape_news and then      *)
(* generate_html_report.  Init is the state when __init__ has set the      *)
(* source list, the registry and the empty stores (lines 38-71).           *)
(***************************************************************************)
ApiKeys == { <<>>, <<"k">> }
SourceLists == { [i \in 1..n |-> i] : n \in 0..MaxSources }
NoOutcome == [kind |-> "none", text |-> <<>>]
NoCall == [op |-> "none", done |-> FALSE, args |-> <<>>, result |-> <<>>]

Init ==
    /\ pc = "start"
    /\ deepseek_api_key \in ApiKeys
    /\ rss_sources \in SourceLists
    /\ categories \in Registries
    /\ articles_by_category = [c \in Names(categories) |-> <<>>]
    /\ processed_urls = {}
    /\ src_idx = 1
    /\ fetch_result = "none"
    /\ entries_left = 0
    /\ link = <<>>
    /\ categorized = [l \in LinkPool |-> 0]
    /\ fetches = 0
    /\ model_calls = 0
    /\ model_outcome = NoOutcome
    /\ daily_summary = <<>>
    /\ summary_log = "none"
    /\ category_article_counts = <<>>
    /\ fn = NoCall

\* line 74; KeyMissingNever is the faulty variant that never finds the key missing
KeyMissingNever(key) == FALSE

KeyMissing(key) == key = <<>>

\* __init__, lines 73-86: without a key ValueError leaves the constructor and
\* main() exits (lines 653-657)
Construct ==
    /\ pc = "start"
    /\ pc' = IF KeyMissing(deepseek_api_key) THEN "fatal" ELSE "fetch"
    /\ UNCHANGED <<deepseek_api_key, rss_sources, categories, articles_by_category,
                   processed_urls, src_idx, fetch_result, entries_left, link,
                   categorized, fetches, model_calls, model_outcome, daily_summary,
                   summary_log, category_article_counts, fn>>

\* what feedparser.parse can do for a source: raise, or deliver a feed with
\* some number of entries (none when the feed is down or empty)
FeedOutcomes ==
    { [raises |-> TRUE, entries |-> 0] }
    \cup { [raises |-> FALSE, entries |-> n] : n \in 0..MaxFeedLen }

\* lines 178-180; OnSourceErrorRaise is the faulty variant that lets the
\* exception leave fetch_news_from_rss
OnSourceErrorRaise == "fatal"

OnSourceError == "fetch"

\* lines 97-113: one source is fetched; the fetch raises, yields no entries, or
\* yields n entries of which the first six are kept
FetchSource ==
    /\ pc = "fetch"
    /\ src_idx <= Len(rss_sources)
    /\ fetches' = fetches + 1
    /\ \E r \in FeedOutcomes :
          IF r.raises
          THEN /\ fetch_result' = "raise"
               /\ pc' = OnSourceError
               /\ src_idx' = src_idx + 1
               /\ entries_left' = 0
          ELSE IF r.entries = 0
          THEN /\ fetch_result' = "empty"
               /\ pc' = "fetch"
               /\ src_idx' = src_idx + 1
               /\ entries_left' = 0
          ELSE /\ fetch_result' = "entries"
               /\ pc' = "entry"
               /\ src_idx' = src_idx
               /\ entries_left' = Min(r.entries, EntriesPerSource)
    /\ UNCHANGED <<deepseek_api_key, rss_sources, categories, articles_by_category,
                   processed_urls, link, categorized, model_calls, model_outcome,
                   daily_summary, summary_log, category_article_counts, fn>>

\* lines 113-172: one entry of the feed
ProcessEntry ==
    /\ pc = "entry"
    /\ \E title \in TitlePool, lnk \in LinkPool, body \in BodyPool :
          LET content_text == ContentText(body.summary, body.description, body.content)
              names == categorize_article(title, content_text, categories)
              article == ArticleData(title, lnk, content_text, rss_sources[src_idx])
          IN  /\ link' = lnk
              /\ IF Seen(lnk, processed_urls)
                 THEN UNCHANGED <<processed_urls, categorized, articles_by_category>>
                 ELSE /\ processed_urls' = processed_urls \cup {lnk}
                      /\ IF lnk # <<>> /\ title # <<>>
                         THEN /\ categorized' = [categorized EXCEPT ![lnk] = @ + 1]
                              /\ articles_by_category' =
                                    IF names # <<>>
                                    THEN AddToCategories(articles_by_category, names, lnk, article)
                                    ELSE articles_by_category
                         ELSE UNCHANGED <<categorized, articles_by_category>>
    /\ entries_left' = entries_left - 1
    /\ IF entries_left' = 0
       THEN pc' = "fetch" /\ src_idx' = src_idx + 1
       ELSE pc' = "entry" /\ src_idx' = src_idx
    /\ UNCHANGED <<deepseek_api_key, rss_sources, categories, fetch_result, fetches,
                   model_calls, model_outcome, daily_summary, summary_log,
                   category_article_counts, fn>>

\* scrape_news, lines 236-239: the loop over the sources is over, the locals of
\* fetch_news_from_rss are gone, and remove_duplicates runs
ScrapeNewsFinish ==
    /\ pc = "fetch"
    /\ src_idx > Len(rss_sources)
    /\ articles_by_category' = remove_duplicates(articles_by_category)
    /\ pc' = "report"
    /\ fetch_result' = "none"
    /\ link' = <<>>
    /\ UNCHANGED <<deepseek_api_key, rss_sources, categories, processed_urls, src_idx,
                   entries_left, categorized, fetches, model_calls, model_outcome,
                   daily_summary, summary_log, category_article_counts, fn>>

\* generate_html_report, lines 313-317: generate_daily_summary, then the
\* ordering of the categories; an exception leaving generate_daily_summary
\* would leave generate_html_report too
GenerateHtmlReport ==
    /\ pc = "report"
    /\ IF NoTitles(AllTitles(categories, articles_by_category))
       THEN /\ daily_summary' = NoArticlesMsg
            /\ summary_log' = "error_no_articles"
            /\ pc' = "done"
            /\ category_article_counts' =
                  CategoryArticleCounts(categories, articles_by_category)
            /\ UNCHANGED <<model_calls, model_outcome>>
       ELSE \E outcome \in ModelOutcomes :
               LET r == SummaryAfterCall(outcome)
               IN  /\ model_calls' = model_calls + 1
                   /\ model_outcome' = outcome
                   /\ daily_summary' = r.text
                   /\ summary_log' = r.log
                   /\ pc' = r.pc
                   /\ category_article_counts' =
                         IF r.pc = "done"
                         THEN CategoryArticleCounts(categories, articles_by_category)
                         ELSE category_article_counts
    /\ UNCHANGED <<deepseek_api_key, rss_sources, categories, articles_by_category,
                   processed_urls, src_idx, fetch_result, entries_left, link,
                   categorized, fetches, fn>>

Next ==
    \/ Construct
    \/ FetchSource
    \/ ProcessEntry
    \/ ScrapeNewsFinish
    \/ GenerateHtmlReport

Spec == Init /\ [][Next]_vars

\* the run is one thread that keeps going until main() returns or exits
FairSpec == Spec /\ WF_vars(Next)

(***************************************************************************)
(* The pure functions on their own: categorize_article on every short      *)
(* title and content and a family of registries, and the category ordering *)
(* of generate_html_report on every filling of a four-category store.      *)
(***************************************************************************)
FnChars == {"A", "i", "e", "V", " "}
MaxTextLen == 2
FnTexts == UNION { [1..n -> FnChars] : n \in 0..MaxTextLen }

\* an upper-case keyword
RegistryUpper ==
    << [name |-> "qiche", keywords |-> << <<"E", "V">> >>] >>

\* a keyword with a blank in it (as 'artificial intelligence'), and a category
\* without a hit among the texts
RegistryBlank ==
    << [name |-> "AI",     keywords |-> << <<"i", " ", "e">> >>],
       [name |-> "youxi",  keywords |-> << <<"x", "b", "o", "x">> >>] >>

\* keywords that overlap, in one category and across categories
RegistryOverlap ==
    << [name |-> "AI",    keywords |-> << <<"a", "i">>, <<"a">> >>],
       [name |-> "keji",  keywords |-> << <<"i">> >>],
       [name |-> "qiche", keywords |-> << <<"e", "v">>, <<"e">> >>] >>

FnRegistries == {RegistryEmpty, RegistryTwo, RegistryUpper, RegistryBlank, RegistryOverlap}

RegistryFour ==
    << [name |-> "keji",    keywords |-> << <<"t", "e", "c", "h">> >>],
       [name |-> "jinrong", keywords |-> << <<"s", "t", "o", "c", "k">> >>],
       [name |-> "AI",      keywords |-> << <<"a", "i">> >>],
       [name |-> "qiche",   keywords |-> << <<"e", "v">> >>] >>

\* a store holding counts[i] articles in the i-th category of cats
FilledStore(cats, counts) ==
    [c \in Names(cats) |->
        LET i == CHOOSE k \in 1..Len(cats) : cats[k].name = c
        IN  [j \in 1..counts[i] |-> ArticleData(<<"x">>, <<"u", "n", "o">>, <<>>, j)]]

\* the first seven categories of self.categories: enough for more than
\* TotalTitleLimit titles at TitleLimitPerCategory a category
RegistrySeven ==
    << [name |-> "keji",    keywords |-> << <<"t", "e", "c", "h">> >>],
       [name |-> "jinrong", keywords |-> << <<"s", "t", "o", "c", "k">> >>],
       [name |-> "AI",      keywords |-> << <<"a", "i">> >>],
       [name |-> "jiaoyu",  keywords |-> << <<"e", "d", "u">> >>],
       [name |-> "yiliao",  keywords |-> << <<"h", "e", "a", "l", "t", "h">> >>],
       [name |-> "huanbao", keywords |-> << <<"e", "c", "o">> >>],
       [name |-> "qiche",   keywords |-> << <<"e", "v">> >>] >>

\* a text of n characters
Repeat(c, n) == [k \in 1..n |-> c]

\* the numbers of articles a category holds in the title-list specification:
\* none, one, the per-category limit, more than the limit
TitleCounts == {0, 1, TitleLimitPerCategory, TitleLimitPerCategory + MaxOver}

\* a store holding counts[i] articles in the i-th category of cats; the j-th
\* article of a category has a title of j characters
TitledStore(cats, counts) ==
    [c \in Names(cats) |->
        LET i == CHOOSE k \in 1..Len(cats) : cats[k].name = c
        IN  [j \in 1..counts[i] |->
                ArticleData(Repeat("x", j), <<"u">> \o Repeat("x", j), <<>>, 1)]]

\* the entries of the article specification: the title, the link and the three
\* content fields of an entry.  A content text is absent (empty), blank, short,
\* or as long as ContentLimit or longer, of letters or of blanks.
EntryTitles == { <<>>, <<"A", "I">>, <<"x">> }
EntryLinks == { <<>>, <<"u">> }
EntryLengths == (ContentLimit - 1)..(ContentLimit + MaxOver)
EntrySummaries ==
    { <<>>, <<" ">>, <<"e", "v">>, <<" ", "e", "v", " ">> }
    \cup { Repeat("x", n) : n \in EntryLengths }
    \cup { Repeat(" ", n) : n \in EntryLengths }
EntryDescriptions == { <<>>, <<" ">>, <<"m", "l">> }
EntryContents ==
    { <<>>, <<NoValue>>, <<[has |-> TRUE, value |-> <<" ">>]>>,
      <<[has |-> TRUE, value |-> <<"a", "i">>]>> }
\* an entry with a summary, or one without and with the other two fields
EntryBodies ==
    { [summary |-> summary, description |-> <<>>, content |-> <<NoValue>>] :
        summary \in EntrySummaries }
    \cup
    { [summary |-> <<>>, description |-> description, content |-> content] :
        description \in EntryDescriptions, content \in EntryContents }

\* lines 116-158 for the first entry of a run: content_text, whether the entry
\* reaches the store (line 147 and line 151), and article_data
EntryArticle(title, lnk, body, cats) ==
    LET content_text == ContentText(body.summary, body.description, body.content)
        names == categorize_article(title, content_text, cats)
    IN  [content_text |-> content_text,
         stored       |-> lnk # <<>> /\ title # <<>> /\ names # <<>>,
         article_data |-> ArticleData(title, lnk, content_text, 1)]

\* the calls to make: the arguments are drawn here, the actions apply the function
CategorizeCalls ==
    { [op |-> "categorize_article", done |-> FALSE,
       args |-> [title |-> title, content |-> content, cats |-> cats], result |-> <<>>] :
         title \in FnTexts, content \in FnTexts, cats \in FnRegistries }

CategoryOrderCalls ==
    { [op |-> "category_article_counts", done |-> FALSE,
       args |-> [cats |-> RegistryFour, counts |-> counts], result |-> <<>>] :
         counts \in [1..Len(RegistryFour) -> 0..MaxCount] }

TitlesForPromptCalls ==
    { [op |-> "titles_for_prompt", done |-> FALSE,
       args |-> [cats |-> RegistrySeven, counts |-> counts], result |-> <<>>] :
         counts \in [1..Len(RegistrySeven) -> TitleCounts] }

MatchScoresCalls ==
    { [op |-> "match_scores", done |-> FALSE,
       args |-> [title |-> title, content |-> content, cats |-> cats], result |-> <<>>] :
         title \in FnTexts, content \in FnTexts, cats \in FnRegistries }

EntryArticleCalls ==
    { [op |-> "entry_article", done |-> FALSE,
       args |-> [title |-> title, link |-> lnk, body |-> body, cats |-> RegistryTwo],
       result |-> <<>>] :
         title \in EntryTitles, lnk \in EntryLinks, body \in EntryBodies }

FnCalls ==
    << CategorizeCalls, CategoryOrderCalls, TitlesForPromptCalls, MatchScoresCalls,
       EntryArticleCalls >>

FnInit ==
    /\ pc = "pure"
    /\ deepseek_api_key = <<"k">>
    /\ rss_sources = <<>>
    /\ categories = RegistryEmpty
    /\ articles_by_category = [c \in Names(RegistryEmpty) |-> <<>>]
    /\ processed_urls = {}
    /\ src_idx = 1
    /\ fetch_result = "none"
    /\ entries_left = 0
    /\ link = <<>>
    /\ categorized = [l \in LinkPool |-> 0]
    /\ fetches = 0
    /\ model_calls = 0
    /\ model_outcome = NoOutcome
    /\ daily_summary = <<>>
    /\ summary_log = "none"
    /\ category_article_counts = <<>>
    /\ \E k \in 1..Len(FnCalls) : fn \in FnCalls[k]

pipeline_vars ==
    <<pc, deepseek_api_key, rss_sources, categories, articles_by_category,
      processed_urls, src_idx, fetch_result, entries_left, link, categorized,
      fetches, model_calls, model_outcome, daily_summary, summary_log,
      category_article_counts>>

ApplyCategorize ==
    /\ fn.op = "categorize_article"
    /\ ~ fn.done
    /\ fn' = [fn EXCEPT !.done = TRUE,
                        !.result = categorize_article(fn.args.title, fn.args.content,
                                                      fn.args.cats)]
    /\ UNCHANGED pipeline_vars

ApplyCategoryOrder ==
    /\ fn.op = "category_article_counts"
    /\ ~ fn.done
    /\ fn' = [fn EXCEPT !.done = TRUE,
                        !.result = CategoryArticleCounts(fn.args.cats,
                                      FilledStore(fn.args.cats, fn.args.counts))]
    /\ UNCHANGED pipeline_vars

ApplyTitlesForPrompt ==
    /\ fn.op = "titles_for_prompt"
    /\ ~ fn.done
    /\ fn' = [fn EXCEPT !.done = TRUE,
                        !.result = TitlesForPrompt(fn.args.cats,
                                      TitledStore(fn.args.cats, fn.args.counts))]
    /\ UNCHANGED pipeline_vars

ApplyMatchScores ==
    /\ fn.op = "match_scores"
    /\ ~ fn.done
    /\ fn' = [fn EXCEPT !.done = TRUE,
                        !.result = match_scores(fn.args.title, fn.args.content,
                                                fn.args.cats)]
    /\ UNCHANGED pipeline_vars

ApplyEntryArticle ==
    /\ fn.op = "entry_article"
    /\ ~ fn.done
    /\ fn' = [fn EXCEPT !.done = TRUE,
                        !.result = EntryArticle(fn.args.title, fn.args.link,
                                                fn.args.body, fn.args.cats)]
    /\ UNCHANGED pipeline_vars

FnNext ==
    \/ ApplyCategorize
    \/ ApplyCategoryOrder
    \/ ApplyTitlesForPrompt
    \/ ApplyMatchScores
    \/ ApplyEntryArticle

FnSpec == FnInit /\ [][FnNext]_vars

(***************************************************************************)
(* Properties                                                              *)
(***************************************************************************)
InEntry == pc = "entry"

\* an entry whose link was already in processed_urls changes nothing
DuplicateDropped ==
    (InEntry /\ link' \in processed_urls)
        => UNCHANGED <<articles_by_category, categorized, processed_urls>>

\* C1: every link value is categorized at most once in a run, whatever source
\* delivers it and whether or not its first entry was kept; an entry whose link
\* was seen before is dropped: nothing is categorized, nothing is stored.
C1_LinkCategorizedOnce ==
    /\ [](\A l \in LinkPool : categorized[l] <= 1)
    /\ [][DuplicateDropped]_vars

\* the second source delivered nothing but entries with the link "u", which the
\* first source had delivered and which was stored from the first source only
C1_Witness ==
    /\ categories = RegistryTwo
    /\ pc = "fetch"
    /\ src_idx = 3
    /\ fetch_result = "entries"
    /\ link = <<"u">>
    /\ processed_urls = { <<"u">> }
    /\ categorized[<<"u">>] = 1
    /\ Len(articles_by_category["AI"]) = 1
    /\ articles_by_category["AI"][1].source = 1

\* C2: no category ever holds two articles with the same stored url, during the
\* fetch and after scrape_news.
C2_NoDuplicateUrl ==
    \A c \in DOMAIN articles_by_category :
        \A i, j \in 1..Len(articles_by_category[c]) :
            i # j => articles_by_category[c][i].url # articles_by_category[c][j].url

\* C3: the text generate_daily_summary returns starts with the sentinel on
\* every path (no articles, model call answered, model call failed).
C3_SentinelPrefix ==
    pc = "done" => StartsWith(daily_summary, SENTINEL)

\* the model answered with a text that lacks the prefix, and it was prepended
C3_Witness ==
    /\ pc = "done"
    /\ summary_log = "info_success"
    /\ Strip(model_outcome.text) # <<>>
    /\ ~ StartsWith(Strip(model_outcome.text), SENTINEL)

\* C4: the model is called at most once in a run; when the call fails in any
\* way the run does not stop: the fallback text starting with the sentinel is
\* returned, logged as a failed call, and the report is assembled.
C4_SingleCallFallback ==
    /\ model_calls <= 1
    /\ pc # "fatal" \/ model_calls = 0
    /\ (model_calls = 1 /\ model_outcome.kind # "content") =>
          /\ pc = "done"
          /\ summary_log = "error_call_failed"
          /\ StartsWith(daily_summary, SENTINEL)
          /\ daily_summary = CallFailedMsg(Raised(model_outcome))
          /\ category_article_counts =
                CategoryArticleCounts(categories, articles_by_category)

C4_Witness ==
    /\ pc = "done"
    /\ fetches = Len(rss_sources)
    /\ model_calls = 1
    /\ model_outcome.kind = "raise"
    /\ category_article_counts # <<>>

StoreEmpty ==
    \A c \in DOMAIN articles_by_category : articles_by_category[c] = <<>>

\* the returned text is marked as a failure: it is logged at error level, or it
\* carries the wording of a failed API call after the sentinel
MarkedFailed ==
    \/ summary_log \in {"error_no_articles", "error_call_failed"}
    \/ StartsWith(daily_summary, SENTINEL \o CallFailedWords)

\* C5 as claimed: with an empty store the model is not called and the result is
\* the fixed placeholder, starting with the sentinel and not marked as a failure.
C5_EmptyStoreNotDegraded ==
    (pc = "done" /\ StoreEmpty) =>
        /\ model_calls = 0
        /\ StartsWith(daily_summary, SENTINEL)
        /\ ~ MarkedFailed

\* C5 amended: with an empty store generate_daily_summary returns at once,
\* without a model call, the fixed text of line 256: it starts with the sentinel,
\* goes on with the wording of a failed API call, and is logged as an error.
C5_EmptyStorePlaceholder ==
    (pc = "done" /\ StoreEmpty) =>
        /\ model_calls = 0
        /\ model_outcome = NoOutcome
        /\ daily_summary = NoArticlesMsg
        /\ StartsWith(daily_summary, SENTINEL \o CallFailedWords)
        /\ summary_log = "error_no_articles"

\* entries were processed, none was stored, and the report is done
C5_Witness ==
    /\ pc = "done"
    /\ StoreEmpty
    /\ categories # <<>>
    /\ \E l \in LinkPool : categorized[l] = 1

\* C6: a model call that returns without content (no choices, content None, an
\* empty or blank text) yields the fallback of a failed call, never a success.
C6_EmptyReplyDegrades ==
    (pc = "done" /\ model_calls = 1
       /\ model_outcome.kind \in {"no_choices", "content_none", "content"}
       /\ Strip(model_outcome.text) = <<>>)
        => summary_log = "error_call_failed"

\* the categories of cats with a keyword that occurs, lower-cased, in
\* lower(title) + " " + lower(content)
HitCategories(title, content, cats) ==
    { cats[i].name : i \in
        { k \in 1..Len(cats) :
            \E n \in 1..Len(cats[k].keywords) :
                Contains(Lower(cats[k].keywords[n]),
                         Lower(title) \o <<" ">> \o Lower(content)) } }

SeqRange(seq) == { seq[i] : i \in 1..Len(seq) }

\* C7: categorize_article returns exactly the categories that have a keyword
\* occurring, case-insensitively and as a substring, in lower(title) + " " +
\* lower(summary), each once; so nothing when no keyword occurs, and one
\* category when the keywords of one category only occur.
C7_CategoriesWithAHit ==
    (fn.op = "categorize_article" /\ fn.done) =>
        /\ SeqRange(fn.result) = HitCategories(fn.args.title, fn.args.content, fn.args.cats)
        /\ Len(fn.result) = Cardinality(SeqRange(fn.result))

\* a keyword of one category of three occurs, in the content only and in
\* upper case
C7_Witness ==
    /\ fn.op = "categorize_article"
    /\ fn.done
    /\ fn.args.cats = RegistryOverlap
    /\ fn.args.title = <<"V">>
    /\ fn.args.content = <<"e", "V">>
    /\ fn.result = <<"qiche">>

Position(cats, name) == CHOOSE k \in 1..Len(cats) : cats[k].name = name

\* C8: the ordering of the report lists the non-empty categories, each once
\* with its article count, by descending count; categories of equal count come
\* in the order of the registry.
C8_OrderedByCount ==
    (fn.op = "category_article_counts" /\ fn.done) =>
        LET cats == fn.args.cats
            counts == fn.args.counts
            r == fn.result
        IN  /\ { r[i].category : i \in 1..Len(r) }
                 = { cats[k].name : k \in { n \in 1..Len(cats) : counts[n] > 0 } }
            /\ \A i \in 1..Len(r) : r[i].count = counts[Position(cats, r[i].category)]
            /\ \A i, j \in 1..Len(r) :
                  i < j =>
                    \/ r[i].count > r[j].count
                    \/ /\ r[i].count = r[j].count
                       /\ Position(cats, r[i].category) < Position(cats, r[j].category)

\* two categories tie behind a category that comes later in the registry
C8_Witness ==
    /\ fn.op = "category_article_counts"
    /\ fn.done
    /\ fn.args.counts = <<1, 0, 2, 1>>
    /\ [i \in 1..Len(fn.result) |-> fn.result[i].category] = <<"AI", "keji", "qiche">>

SourceSkipped ==
    (pc = "fetch" /\ fetches' = fetches + 1 /\ fetch_result' \in {"raise", "empty"})
        => /\ pc' = "fetch"
           /\ src_idx' = src_idx + 1
           /\ UNCHANGED <<articles_by_category, processed_urls>>

\* C10: a source that fails or has no entries is skipped without ending the
\* run: what is stored stays, every source of the list is fetched, and the run
\* reaches the report, whichever sources fail.
C10_FailedSourceSkipped ==
    /\ [][SourceSkipped]_vars
    /\ [](pc \in {"report", "done"} => fetches = Len(rss_sources))
    /\ [](pc = "fetch" => <>(pc = "done"))

\* the second source raised after the first had an article stored
C10_Witness ==
    /\ categories = RegistryTwo
    /\ pc = "fetch"
    /\ src_idx = 3
    /\ fetch_result = "raise"
    /\ Len(articles_by_category["AI"]) = 1

RECURSIVE SumTaken(_, _)
SumTaken(order, taken) ==
    IF order = <<>> THEN 0 ELSE taken[Head(order)] + SumTaken(Tail(order), taken)

\* r lists, for the categories in the given order, the first taken[c] titles of
\* category c (the j-th title has j characters), cut after TotalTitleLimit titles
TitlesInOrder(r, order, taken) ==
    LET pos(c) == CHOOSE k \in 1..Len(order) : order[k] = c
        idx(i) == Len(r[i].title)
    IN  /\ Len(r) = Min(TotalTitleLimit, SumTaken(order, taken))
        /\ \A i \in 1..Len(r) :
              /\ r[i].category \in SeqRange(order)
              /\ idx(i) \in 1..taken[r[i].category]
        /\ Len(r) > 0 =>
              /\ idx(1) = 1
              /\ \A k \in 1..(pos(r[1].category) - 1) : taken[order[k]] = 0
        /\ \A i \in 1..(Len(r) - 1) :
              \/ /\ r[i + 1].category = r[i].category
                 /\ idx(i + 1) = idx(i) + 1
              \/ /\ idx(i) = taken[r[i].category]
                 /\ idx(i + 1) = 1
                 /\ pos(r[i].category) < pos(r[i + 1].category)
                 /\ \A k \in (pos(r[i].category) + 1)..(pos(r[i + 1].category) - 1) :
                       taken[order[k]] = 0

\* the number of titles a category gives: its articles, at most TitleLimitPerCategory
TakenOf(cats, counts) ==
    [c \in Names(cats) |-> Min(counts[Position(cats, c)], TitleLimitPerCategory)]

\* C11 as claimed: the title list walks the categories in snapshot order (by
\* descending count, ties in registry order), takes at most
\* TitleLimitPerCategory titles from each and keeps the first TotalTitleLimit.
C11_TitlesInSnapshotOrder ==
    (fn.op = "titles_for_prompt" /\ fn.done) =>
        LET snapshot == CategoryArticleCounts(fn.args.cats,
                                              TitledStore(fn.args.cats, fn.args.counts))
        IN  TitlesInOrder(fn.result,
                          [i \in 1..Len(snapshot) |-> snapshot[i].category],
                          TakenOf(fn.args.cats, fn.args.counts))

\* C11 amended: the title list walks the categories in the order of the
\* registry (the dict's own order), takes at most TitleLimitPerCategory titles
\* from each non-empty category and keeps the first TotalTitleLimit.
C11_TitlesInRegistryOrder ==
    (fn.op = "titles_for_prompt" /\ fn.done) =>
        TitlesInOrder(fn.result,
                      [i \in 1..Len(fn.args.cats) |-> fn.args.cats[i].name],
                      TakenOf(fn.args.cats, fn.args.counts))

\* a small category comes first in the registry, six categories are over the
\* per-category limit, and the list is cut at TotalTitleLimit
C11_Witness ==
    /\ fn.op = "titles_for_prompt"
    /\ fn.done
    /\ fn.args.counts[1] = 1
    /\ \A k \in 2..Len(fn.args.cats) : fn.args.counts[k] > TitleLimitPerCategory
    /\ Len(fn.result) = TotalTitleLimit
    /\ fn.result[1].category = "keji"
    /\ fn.result[TotalTitleLimit].category = "qiche"

\* the positions of the keywords of a category that occur in the lower-cased
\* text: in the title, and in the full text but not in the title
InTitle(keywords, title) ==
    {n \in 1..Len(keywords) : Contains(Lower(keywords[n]), Lower(title))}

InFullOnly(keywords, title, content) ==
    {n \in 1..Len(keywords) :
        /\ Contains(Lower(keywords[n]), Lower(title \o <<" ">> \o content))
        /\ ~ Contains(Lower(keywords[n]), Lower(title))}

ScoresAre(title_weight) ==
    (fn.op = "match_scores" /\ fn.done) =>
        /\ Len(fn.result) = Len(fn.args.cats)
        /\ \A i \in 1..Len(fn.args.cats) :
              LET keywords == fn.args.cats[i].keywords
              IN  /\ fn.result[i].category = fn.args.cats[i].name
                  /\ fn.result[i].score =
                        title_weight * Cardinality(InTitle(keywords, fn.args.title))
                        + Cardinality(InFullOnly(keywords, fn.args.title, fn.args.content))

\* C12 as stated: the score of a category is the sum, over its keywords that
\* occur in the full text, of 2 for a keyword that occurs in the title and of 1
\* for any other.
C12_TitleKeywordCountsTwo == ScoresAre(2)

\* C12: the score of a category is the sum, over its keywords that occur in the
\* full text, of 3 (1 for the full text and 2 more for the title) for a keyword
\* that occurs in the lower-cased title and of 1 for any other.
C12_TitleKeywordCountsThree == ScoresAre(3)

\* two keywords of the first category and the one of the second occur in the
\* title, one keyword of the third occurs in the content only
C12_Witness ==
    /\ fn.op = "match_scores"
    /\ fn.done
    /\ fn.args.cats = RegistryOverlap
    /\ fn.args.title = <<"A", "i">>
    /\ fn.args.content = <<"e">>
    /\ fn.result = << [category |-> "AI", score |-> 6],
                      [category |-> "keji", score |-> 3],
                      [category |-> "qiche", score |-> 1] >>

EntryStored == fn.op = "entry_article" /\ fn.done /\ fn.result.stored

\* the longest summary the truncation of lines 132-133 leaves: ContentLimit
\* characters and the three of the ellipsis
SummaryBound == ContentLimit + Len(<<".", ".", ".">>)

\* the stored summary has a character and is no longer than SummaryBound
C13_SummaryBounded ==
    EntryStored =>
        /\ fn.result.article_data.summary # <<>>
        /\ Len(fn.result.article_data.summary) <= SummaryBound

\* the stored summary of an entry without content text is the sentinel
C13_SentinelWhenAbsent ==
    EntryStored =>
        (fn.result.content_text = <<>> => fn.result.article_data.summary = NoSummary)

\* C13: every article that reaches the store has a non-empty summary of bounded
\* length, whether the content of its entry is absent, empty, blank or longer
\* than ContentLimit, and the summary is the "no summary" sentinel when the
\* entry carries no content text.
C13_SummaryNonEmptyBounded ==
    /\ C13_SummaryBounded
    /\ C13_SentinelWhenAbsent

\* a stored article whose summary is the empty text
C13_EmptySummaryStored ==
    /\ EntryStored
    /\ fn.args.title = <<"A", "I">>
    /\ fn.args.body.summary = <<" ">>
    /\ fn.result.article_data.summary = <<>>


=============================================================================
